---- MODULE Spec2Model ----
(***************************************************************************)
(* ws-key-auth: public-key challenge-response handshake over a WebSocket.  *)
(*                                                                         *)
(*   server  src/go/lib.go          parseClientID, getChallengePayload,    *)
(*                                  Handshake                              *)
(*   client  src/browser/src/lib.ts encodeBase64, decodeBase64, onOpen,    *)
(*                                  connect                                *)
(*           src/browser/src/main.ts getClientId, sign                     *)
(*                                                                         *)
(* Strings are sequences of character codes, byte buffers are sequences of *)
(* 0..255.  Message tags and hash names, which the code only compares for  *)
(* equality, are TLA+ strings.  ECDSA and SHA-256 are abstracted (see      *)
(* Sum256, SignBytes, Verify).                                             *)
(***************************************************************************)
EXTENDS Integers, Sequences, FiniteSets, TLC

(***************************************************************************)
(* Bounds of the model.                                                    *)
(***************************************************************************)
\* number of key pairs that exist in the model
NumKeys == 4
\* number of distinct values the random source can yield
NumChallenges == 4
\* frames in flight to the client; frames, sign calls and sent messages together
MaxInFlight == 2
MaxLoad == 4
\* connections of the server that runs several handshakes
NumConns == 2
\* coordinate values an identifier is encoded from
NumCoords == 8
\* the longest buffer given to encodeBase64
MaxBufLen == 4

(***************************************************************************)
(* Sequences, characters.                                                  *)
(***************************************************************************)
\* F(x), with x evaluated once before F is applied to its value
Bind(x, F(_)) == CHOOSE r \in { F(v) : v \in { x } } : TRUE

Fill(n, v) == [i \in 1..n |-> v]

Take(s, n) == IF n >= Len(s) THEN s ELSE SubSeq(s, 1, n)

\* the characters '$', '=', '!', '\n', '\r'
ChDollar == 36
ChPad == 61
ChLF == 10
ChCR == 13

\* "ABCDEFGHIJKLMNOPQRSTUVWXYZabcdefghijklmnopqrstuvwxyz0123456789+/"
base64chars ==
  << 65, 66, 67, 68, 69, 70, 71, 72, 73, 74, 75, 76, 77, 78, 79, 80, 81, 82,
     83, 84, 85, 86, 87, 88, 89, 90, 97, 98, 99, 100, 101, 102, 103, 104, 105,
     106, 107, 108, 109, 110, 111, 112, 113, 114, 115, 116, 117, 118, 119,
     120, 121, 122, 48, 49, 50, 51, 52, 53, 54, 55, 56, 57, 43, 47 >>

\* the position (0..63) of each character code in the alphabet, or -1
IndexTable ==
  [c \in 0..255 |->
     IF \E k \in 1..64 : base64chars[k] = c
     THEN (CHOOSE k \in 1..64 : base64chars[k] = c) - 1
     ELSE -1]

\* String.prototype.indexOf on the 64-character alphabet: 0..63, or -1
IndexOf(c) == IndexTable[c]

\* "WebCrypto-raw.EC."
StrPrefix ==
  << 87, 101, 98, 67, 114, 121, 112, 116, 111, 45, 114, 97, 119, 46, 69, 67, 46 >>

\* "P-256", "P-384"
StrP256 == << 80, 45, 50, 53, 54 >>
StrP384 == << 80, 45, 51, 56, 52 >>

\* "WebCrypto-raw.EC.P-256"
StrSchemeP256 == StrPrefix \o StrP256

(***************************************************************************)
(* Go: strings.Split(s, "$").                                              *)
(***************************************************************************)
\* the pieces of s between the separators at the positions at
SplitAt(s, at) ==
  LET n == Cardinality(at)
      \* position of the j-th separator; 0 before the first, Len(s)+1 after the last
      pos(j) == IF j = 0 THEN 0
                ELSE IF j > n THEN Len(s) + 1
                ELSE CHOOSE i \in at : Cardinality({ x \in at : x < i }) = j - 1
  IN [j \in 1..(n + 1) |-> SubSeq(s, pos(j - 1) + 1, pos(j) - 1)]

Split(str, sep) ==
  Bind(str, LAMBDA s : Bind({ i \in 1..Len(s) : s[i] = sep },
                            LAMBDA at : SplitAt(s, at)))

(***************************************************************************)
(* Go: base64.StdEncoding (RFC 4648, '=' padding).                         *)
(***************************************************************************)
EncodeBytes(b) ==
  LET n == Len(b)
      at(i) == IF i <= n THEN b[i] ELSE 0
      ch(j) ==
        LET q == (j - 1) \div 4
            r == (j - 1) % 4
            have == n - 3 * q
            b1 == at(3 * q + 1)
            b2 == at(3 * q + 2)
            b3 == at(3 * q + 3)
        IN CASE r = 0 -> base64chars[(b1 \div 4) + 1]
             [] r = 1 -> base64chars[((b1 % 4) * 16) + (b2 \div 16) + 1]
             [] r = 2 -> IF have < 2 THEN ChPad
                         ELSE base64chars[((b2 % 16) * 4) + (b3 \div 64) + 1]
             [] r = 3 -> IF have < 3 THEN ChPad
                         ELSE base64chars[(b3 % 64) + 1]
  IN [j \in 1..(4 * ((n + 2) \div 3)) |-> ch(j)]

StdEncodeToString(src) == Bind(src, EncodeBytes)

\* DecodeString: '\r' and '\n' are skipped; the rest must be whole quanta of
\* four characters, '=' only as the last one or two characters; the unused
\* bits of the last quantum are not checked (the encoding is not Strict).
DecodeChars(s) ==
  LET n == Len(s)
      pad == IF n >= 1 /\ s[n] = ChPad
             THEN (IF n >= 2 /\ s[n - 1] = ChPad THEN 2 ELSE 1)
             ELSE 0
      wellFormed == /\ n % 4 = 0
                    /\ \A i \in 1..(n - pad) : IndexOf(s[i]) >= 0
      ix(i) == IF i > n - pad THEN 0 ELSE IndexOf(s[i])
      by(k) ==
        LET q == (k - 1) \div 3
            r == (k - 1) % 3
            i1 == ix(4 * q + 1)
            i2 == ix(4 * q + 2)
            i3 == ix(4 * q + 3)
            i4 == ix(4 * q + 4)
        IN CASE r = 0 -> (i1 * 4) + (i2 \div 16)
             [] r = 1 -> ((i2 % 16) * 16) + (i3 \div 4)
             [] r = 2 -> ((i3 % 4) * 64) + i4
  IN IF wellFormed
     THEN [err |-> FALSE, bytes |-> [k \in 1..((3 * (n \div 4)) - pad) |-> by(k)]]
     ELSE [err |-> TRUE, bytes |-> <<>>]

StdDecodeString(str) ==
  Bind(SelectSeq(str, LAMBDA c : c # ChLF /\ c # ChCR), DecodeChars)

(***************************************************************************)
(* Browser: encodeBase64 / decodeBase64 (src/browser/src/lib.ts).          *)
(* JavaScript's 32-bit operators, on the small values that occur here:     *)
(* x >> n is floor division (so -1 >> n = -1), x << n a multiplication,    *)
(* x & (2^k - 1) the residue modulo 2^k (two's complement), and hi | lo,   *)
(* where the low k bits of hi are zero and lo is -1 or below 2^k, is -1    *)
(* when lo = -1 and hi + lo otherwise.  A store into a Uint8Array keeps    *)
(* the value modulo 256 and is dropped when the index is out of range.     *)
(***************************************************************************)
JsShr(x, n) == x \div (2 ^ n)

JsShl(x, n) == x * (2 ^ n)

JsAndMask(x, m) == x % (m + 1)

JsOr(hi, lo) == IF lo < 0 THEN -1 ELSE hi + lo

\* EncChar over an alphabet of 64 characters, without '='
EncCharNoPad(e) == base64chars[(e % 64) + 1]

\* the 65th character of encodeBase64's alphabet is '='
EncChar(e) == IF e = 64 THEN ChPad ELSE base64chars[e + 1]

\* the while loop of encodeBase64 from offset i on: the characters appended
RECURSIVE EncodeLoop(_, _)
EncodeLoop(bytes, i) ==
  IF ~(i < Len(bytes)) THEN <<>>
  ELSE
    LET byte1 == bytes[i + 1]
        undef2 == i + 1 >= Len(bytes)
        undef3 == i + 2 >= Len(bytes)
        padding == (IF undef2 THEN 1 ELSE 0) + (IF undef3 THEN 1 ELSE 0)
        byte2 == IF undef2 THEN 0 ELSE bytes[i + 2]
        byte3 == IF undef3 THEN 0 ELSE bytes[i + 3]
        encoded1 == JsShr(byte1, 2)
        encoded2 == JsOr(JsShl(JsAndMask(byte1, 3), 4), JsShr(byte2, 4))
        e3 == JsOr(JsShl(JsAndMask(byte2, 15), 2), JsShr(byte3, 6))
        e4 == JsAndMask(byte3, 63)
        encoded3 == IF padding = 2 THEN 64 ELSE e3
        encoded4 == IF padding >= 1 THEN 64 ELSE e4
    IN << EncChar(encoded1), EncChar(encoded2),
          EncChar(encoded3), EncChar(encoded4) >> \o EncodeLoop(bytes, i + 3)

encodeBase64(buffer) == Bind(buffer, LAMBDA bytes : EncodeLoop(bytes, 0))

\* /^[A-Za-z0-9+/]+={0,2}$/
RegexBase64(s) ==
  \E p \in 0..2 :
    /\ Len(s) - p >= 1
    /\ \A i \in 1..(Len(s) - p) : IndexOf(s[i]) >= 0
    /\ \A i \in (Len(s) - p + 1)..Len(s) : s[i] = ChPad

EndsWithPad(s, n) ==
  Len(s) >= n /\ \A i \in (Len(s) - n + 1)..Len(s) : s[i] = ChPad

\* base64chars.indexOf(base64[i]); base64[i] is undefined past the end
DecIndex(s, i) == IF i + 1 > Len(s) THEN -1 ELSE IndexOf(s[i + 1])

\* the while loop of decodeBase64 from offset i on: the values stored, in the
\* order of the stores bytes[j++] = ...
RECURSIVE DecodeLoop(_, _)
DecodeLoop(s, i) ==
  IF ~(i < Len(s)) THEN <<>>
  ELSE
    LET index1 == DecIndex(s, i)
        index2 == DecIndex(s, i + 1)
        index3 == DecIndex(s, i + 2)
        index4 == DecIndex(s, i + 3)
        decoded1 == JsOr(JsShl(index1, 2), JsShr(index2, 4))
        decoded2 == JsOr(JsShl(JsAndMask(index2, 15), 4), JsShr(index3, 2))
        decoded3 == JsOr(JsShl(JsAndMask(index3, 3), 6), index4)
    IN << decoded1 >>
       \o (IF index3 # 64 THEN << decoded2 >> ELSE <<>>)
       \o (IF index4 # 64 THEN << decoded3 >> ELSE <<>>)
       \o DecodeLoop(s, i + 4)

\* new Uint8Array(size) after the stores: a store keeps the value modulo 256,
\* a store past the end is dropped, an element never stored stays 0
Uint8Array(size, stores) ==
  Bind(stores, LAMBDA st : [k \in 1..size |-> IF k <= Len(st) THEN st[k] % 256 ELSE 0])

DecodeText(base64) ==
  IF ~RegexBase64(base64) THEN [throws |-> TRUE, bytes |-> <<>>]
  ELSE
    LET padding == IF EndsWithPad(base64, 2) THEN 2
                   ELSE IF EndsWithPad(base64, 1) THEN 1 ELSE 0
        size == ((Len(base64) * 6) \div 8) - padding
    IN [throws |-> FALSE, bytes |-> Uint8Array(size, DecodeLoop(base64, 0))]

\* throws: TRUE when the function throws "Invalid base64 string"
decodeBase64(base64) == Bind(base64, DecodeText)

(***************************************************************************)
(* Cryptography, abstracted.  Key pair k (1..NumKeys) has the uncompressed *)
(* point 0x04 || X || Y.  SHA-256 is a function to 32 bytes that is        *)
(* injective on the challenges of the model and never returns the first 32 *)
(* bytes of its argument.  An ECDSA signature of key k over a digest is    *)
(* r || s with r determined by k and s by the digest, and it verifies      *)
(* exactly under k's public key and that digest.                           *)
(***************************************************************************)
\* sizes in bytes: raw P-256 point, coordinate, signature
KeyLen == 65
CoordLen == 32
SigLen == 64
\* first byte of an uncompressed point
PointMarker == 4

challengeByteLength == 128

Keys == 1..NumKeys

KeyX(k) == Fill(CoordLen, 16 + k)

KeyY(k) == [i \in 1..CoordLen |-> (i + k) % 256]

\* the raw form of the point (x, y): 0x04 || X || Y, the coordinates
\* big-endian at the length of the curve
RawPoint(x, y) == << PointMarker >> \o x \o y

\* crypto.subtle.exportKey("raw", publicKey)
ExportRaw(k) == RawPoint(KeyX(k), KeyY(k))

\* big.Int.SetBytes: big-endian, leading zero bytes do not count
RECURSIVE SetBytes(_)
SetBytes(b) ==
  IF b = <<>> THEN <<>> ELSE IF b[1] = 0 THEN SetBytes(Tail(b)) ELSE b

PublicKeyOf(k) == [nil |-> FALSE, X |-> SetBytes(KeyX(k)), Y |-> SetBytes(KeyY(k))]

NilKey == [nil |-> TRUE, X |-> <<>>, Y |-> <<>>]

\* sha256.Sum256 / the SHA-256 step of WebCrypto's ECDSA
Digest(p) ==
  IF p = <<>> THEN Fill(CoordLen, 227)
  ELSE [i \in 1..CoordLen |-> (p[((i - 1) % Len(p)) + 1] + i) % 256]

Sum256(data) == Bind(data, Digest)

\* the signature of key k over a digest: r || s, 64 bytes
SignBytes(k, digest) == Fill(CoordLen, 200 + k) \o Take(digest, CoordLen)

\* Verify with the public key ignored
VerifyAnyKey(pub, hash, r, s) ==
  \E k \in Keys :
    /\ r = SetBytes(Fill(CoordLen, 200 + k))
    /\ s = SetBytes(Take(hash, CoordLen))

\* ecdsa.Verify(pub, hash, r, s); the hash is cut to the order's 32 bytes
Verify(pub, hash, r, s) ==
  \E k \in Keys :
    /\ pub = PublicKeyOf(k)
    /\ r = SetBytes(Fill(CoordLen, 200 + k))
    /\ s = SetBytes(Take(hash, CoordLen))

\* sign without its hash step: the signature is made over the data itself
signNoHash(data, k) == SignBytes(k, data)

\* main.ts sign: crypto.subtle.sign({name: "ECDSA", hash: "SHA-256"}, key, data)
sign(data, k) == SignBytes(k, Sum256(data))

\* main.ts getClientId on the exported key raw:
\* `WebCrypto-raw.EC.${namedCurve}$${encodedRaw}`
ClientIdOf(raw, namedCurve) ==
  StrPrefix \o namedCurve \o << ChDollar >> \o encodeBase64(raw)

getClientId(k, namedCurve) == ClientIdOf(ExportRaw(k), namedCurve)

(***************************************************************************)
(* Server: parseClientID.                                                  *)
(***************************************************************************)
SplitCountOk(s) == Len(s) = 2

\* SchemeOk with any curve name accepted
SchemeOkAnyCurve(prefix) == Take(prefix, Len(StrPrefix)) = StrPrefix

SchemeOk(prefix) == prefix = StrSchemeP256

KeyLenOk(buff) == Len(buff) = KeyLen

KeyMarkerOk(buff) == buff[1] = PointMarker

\* the checks on the decoded key; dec is the outcome of DecodeString(s[1])
ParseKey(dec) ==
  LET buff == dec.bytes
  IN IF dec.err THEN [err |-> TRUE, key |-> NilKey]
     ELSE IF ~KeyLenOk(buff) THEN [err |-> TRUE, key |-> NilKey]
     ELSE IF ~KeyMarkerOk(buff) THEN [err |-> TRUE, key |-> NilKey]
     ELSE [err |-> FALSE,
           key |-> [nil |-> FALSE,
                    X |-> SetBytes(SubSeq(buff, 2, 33)),
                    Y |-> SetBytes(SubSeq(buff, 34, Len(buff)))]]

\* the checks on the pieces s of the identifier
ParsePieces(s) ==
  IF ~SplitCountOk(s) THEN [err |-> TRUE, key |-> NilKey]
  ELSE IF ~SchemeOk(s[1]) THEN [err |-> TRUE, key |-> NilKey]
  ELSE Bind(StdDecodeString(s[2]), ParseKey)

parseClientID(clientID) == Bind(Split(clientID, ChDollar), ParsePieces)

(***************************************************************************)
(* Server: getChallengePayload.  rnd is the outcome of rand.Read: an       *)
(* error, or n bytes read of the value numbered c.                         *)
(***************************************************************************)
RandomBytes(c) == [i \in 1..challengeByteLength |-> ((37 * c) + i) % 256]

RandOutcomes ==
  { [err |-> TRUE, n |-> 0, c |-> 1],
    [err |-> FALSE, n |-> challengeByteLength - 1, c |-> 1] }
  \cup { [err |-> FALSE, n |-> challengeByteLength, c |-> c] : c \in 1..NumChallenges }

RandGood == { rnd \in RandOutcomes : ~rnd.err /\ rnd.n = challengeByteLength }

\* getChallengePayload that yields one and the same value at every call
getChallengePayloadFixed(rnd) == [err |-> FALSE, b |-> RandomBytes(1)]

getChallengePayload(rnd) ==
  IF rnd.err THEN [err |-> TRUE, b |-> <<>>]
  ELSE IF rnd.n < challengeByteLength THEN [err |-> TRUE, b |-> <<>>]
  ELSE [err |-> FALSE, b |-> RandomBytes(rnd.c)]

(***************************************************************************)
(* JSON values and envelopes.  A value is absent, null, a string, the      *)
(* object {signature, hash} (each member absent, a string or of another    *)
(* type), human-readable text (str holds its variable part), or of some    *)
(* other type.                                                             *)
(***************************************************************************)
JVal(kind, str, sigKind, sig, hashKind, hash) ==
  [kind |-> kind, str |-> str, sigKind |-> sigKind, sig |-> sig,
   hashKind |-> hashKind, hash |-> hash]

JAbsent == JVal("absent", <<>>, "absent", <<>>, "absent", "")
JNull == JVal("null", <<>>, "absent", <<>>, "absent", "")
JOther == JVal("other", <<>>, "absent", <<>>, "absent", "")
JStr(str) == JVal("string", str, "absent", <<>>, "absent", "")
JText(str) == JVal("text", str, "absent", <<>>, "absent", "")
JObj(sigKind, sig, hashKind, hash) == JVal("object", <<>>, sigKind, sig, hashKind, hash)

\* a message on the wire
Msg(type, data) == [type |-> type, data |-> data]

\* what conn.ReadJSON meets: an error (transport failure, or text that is not
\* a JSON object with a string "type"), or an object whose "type" and "data"
\* members may each be absent
ReadErr == [err |-> TRUE, hasType |-> FALSE, type |-> "", data |-> JAbsent]
ReadOk(hasType, type, data) ==
  [err |-> FALSE, hasType |-> hasType, type |-> type, data |-> data]

\* var td TypeData
TdZero == [Type |-> "", Data |-> JAbsent]

\* conn.ReadJSON(&td): members absent from the text keep their old value
ReadJSON(tdOld, in) ==
  [Type |-> IF in.hasType THEN in.type ELSE tdOld.Type,
   Data |-> IF in.data.kind = "absent" THEN tdOld.Data ELSE in.data]

\* json.Unmarshal(td.Data, &clientID), clientID == ""
UnmarshalClientID(data) ==
  CASE data.kind = "string" -> [err |-> FALSE, val |-> data.str]
    [] data.kind = "null" -> [err |-> FALSE, val |-> <<>>]
    [] OTHER -> [err |-> TRUE, val |-> <<>>]

\* json.Unmarshal(td.Data, &challengeResponse)
UnmarshalChallengeResponse(data) ==
  CASE data.kind = "object" /\ data.sigKind # "other" /\ data.hashKind # "other" ->
         [err |-> FALSE,
          Signature |-> IF data.sigKind = "string" THEN data.sig ELSE <<>>,
          Hash |-> IF data.hashKind = "string" THEN data.hash ELSE ""]
    [] data.kind = "null" -> [err |-> FALSE, Signature |-> <<>>, Hash |-> ""]
    [] OTHER -> [err |-> TRUE, Signature |-> <<>>, Hash |-> ""]

\* strconv.Itoa, n >= 0
RECURSIVE Itoa(_)
Itoa(n) == IF n < 10 THEN << 48 + n >> ELSE Itoa(n \div 10) \o << 48 + (n % 10) >>

(***************************************************************************)
(* Server: Handshake.  The function blocks in two reads; Handshake1 is the *)
(* code from the first read to the second read or to a return, Handshake2  *)
(* the code from the second read to the return.  Each yields the message   *)
(* it writes (at most one), the locals, and the return value if it         *)
(* returns.                                                                *)
(***************************************************************************)
Ret(authenticated, clientID, err) ==
  [authenticated |-> authenticated, clientID |-> clientID, err |-> err]

NoRet == Ret(FALSE, <<>>, FALSE)

IsClientIDType(t) == t = "CLIENT_ID"

\* IsChallengeResponseType with every type accepted
AnyType(t) == TRUE

IsChallengeResponseType(t) == t = "CHALLENGE_RESPONSE"

\* HashSupported with every hash name accepted
HashSupportedAny(h) == TRUE

HashSupported(h) == h = "SHA-256"

\* SigLenOk with longer signatures accepted
SigLenAtLeast(sig) == Len(sig) >= SigLen

SigLenOk(sig) == Len(sig) = SigLen

\* SignatureVerifies with the payload itself given to Verify, not its digest
SignatureVerifiesRaw(pubKey, payload, sig) ==
  Verify(pubKey, payload, SetBytes(SubSeq(sig, 1, CoordLen)),
         SetBytes(SubSeq(sig, CoordLen + 1, Len(sig))))

\* lines 260-268: r, s from the two halves, the digest of the payload, Verify
SignatureVerifies(pubKey, payload, sig) ==
  Bind(Sum256(payload), LAMBDA hashedPayload :
    Verify(pubKey, hashedPayload, SetBytes(SubSeq(sig, 1, CoordLen)),
           SetBytes(SubSeq(sig, CoordLen + 1, Len(sig)))))

Out(returns, ret, write, tdv, clientID, pubKey, payload) ==
  [returns |-> returns, ret |-> ret, write |-> write, td |-> tdv,
   clientID |-> clientID, pubKey |-> pubKey, payload |-> payload]

\* a notification written when the first read fails
ReadFailure1Notified == << Msg("SERVER_ERROR", JText(<<>>)) >>

\* the message written when the first read fails (lines 125-127): none
ReadFailure1Write == <<>>

\* IssueChallenge with the failure of getChallengePayload told to the peer,
\* as the block at lines 180-189 would
IssueChallengeNotified(td1, clientID, p, c) ==
  IF c.err
  THEN Out(TRUE, Ret(FALSE, clientID, TRUE), << Msg("SERVER_ERROR", JText(<<>>)) >>,
           td1, clientID, p.key, <<>>)
  ELSE Out(FALSE, NoRet, << Msg("CHALLENGE", JStr(StdEncodeToString(c.b))) >>,
           td1, clientID, p.key, c.b)

\* from getChallengePayload (line 174) to the CHALLENGE write (line 191);
\* p is the result of parseClientID
IssueChallenge(td1, clientID, p, c) ==
  IF c.err
  THEN Out(TRUE, Ret(FALSE, clientID, TRUE), <<>>, td1, clientID, p.key, <<>>)
  ELSE Out(FALSE, NoRet, << Msg("CHALLENGE", JStr(StdEncodeToString(c.b))) >>,
           td1, clientID, p.key, c.b)

\* from the type check (line 129) to the nil check of the key (line 163);
\* u is the result of unmarshalling td.Data, p of parseClientID
IdentifyClient(td1, u, p, rnd) ==
  IF ~IsClientIDType(td1.Type)
  THEN Out(TRUE, Ret(FALSE, <<>>, FALSE),
           << Msg("CLIENT_ERROR", JText(<<>>)) >>, td1, <<>>, NilKey, <<>>)
  ELSE IF u.err
  THEN Out(TRUE, Ret(FALSE, <<>>, TRUE),
           << Msg("CLIENT_ERROR", JText(<<>>)) >>, td1, <<>>, NilKey, <<>>)
  ELSE IF p.err
  THEN Out(TRUE, Ret(FALSE, u.val, TRUE),
           << Msg("CLIENT_ERROR", JText(<<>>)) >>, td1, u.val, NilKey, <<>>)
  ELSE IF p.key.nil
  THEN Out(TRUE, Ret(FALSE, u.val, FALSE),
           << Msg("CLIENT_ERROR", JText(<<>>)) >>, td1, u.val, NilKey, <<>>)
  ELSE Bind(getChallengePayload(rnd), LAMBDA c : IssueChallenge(td1, u.val, p, c))

Handshake1(tdOld, in, rnd) ==
  IF in.err
  THEN Out(TRUE, Ret(FALSE, <<>>, TRUE), ReadFailure1Write, tdOld, <<>>, NilKey, <<>>)
  ELSE
    Bind(ReadJSON(tdOld, in), LAMBDA td1 :
      Bind(UnmarshalClientID(td1.Data), LAMBDA u :
        Bind(parseClientID(u.val), LAMBDA p : IdentifyClient(td1, u, p, rnd))))

\* the message written when the second read fails (lines 197-205)
ReadFailure2Write == << Msg("SERVER_ERROR", JText(<<>>)) >>

\* Accept with authenticated = false returned after the SIGNATURE_MATCHES write
AcceptRejected(clientID) == Ret(FALSE, clientID, FALSE)

\* Accept with the identifier left out of the return value
AcceptNoID(clientID) == Ret(TRUE, <<>>, FALSE)

\* the value returned after the SIGNATURE_MATCHES write (line 279)
Accept(clientID) == Ret(TRUE, clientID, FALSE)

\* from the type check (line 207) to the return; cr is the result of
\* unmarshalling td.Data, dec of decoding cr.Signature
CheckResponse(td2, cr, dec, clientID, pubKey, payload) ==
  LET fail(err, m) == Out(TRUE, Ret(FALSE, clientID, err), << m >>,
                          td2, clientID, pubKey, payload)
  IN IF ~IsChallengeResponseType(td2.Type)
     THEN fail(FALSE, Msg("CLIENT_ERROR", JText(<<>>)))
     ELSE IF cr.err
     THEN fail(TRUE, Msg("CLIENT_ERROR", JText(<<>>)))
     ELSE IF ~HashSupported(cr.Hash)
     THEN fail(FALSE, Msg("UNSUPPORTED_HASH", JText(<<>>)))
     ELSE IF dec.err
     THEN fail(TRUE, Msg("CLIENT_ERROR", JText(<<>>)))
     ELSE IF ~SigLenOk(dec.bytes)
     THEN fail(FALSE, Msg("SIGNATURE_MISMATCH", JText(Itoa(Len(dec.bytes)))))
     ELSE IF ~SignatureVerifies(pubKey, payload, dec.bytes)
     THEN fail(FALSE, Msg("SIGNATURE_MISMATCH", JAbsent))
     ELSE Out(TRUE, Accept(clientID), << Msg("SIGNATURE_MATCHES", JAbsent) >>,
              td2, clientID, pubKey, payload)

Handshake2(tdOld, clientID, pubKey, payload, in) ==
  IF in.err
  THEN Out(TRUE, Ret(FALSE, clientID, TRUE), ReadFailure2Write,
           tdOld, clientID, pubKey, payload)
  ELSE
    Bind(ReadJSON(tdOld, in), LAMBDA td2 :
      Bind(UnmarshalChallengeResponse(td2.Data), LAMBDA cr :
        Bind(StdDecodeString(cr.Signature), LAMBDA dec :
          CheckResponse(td2, cr, dec, clientID, pubKey, payload))))

(***************************************************************************)
(* State.                                                                  *)
(***************************************************************************)
VARIABLES
  srvPc,        \* where Handshake stands: "IDLE" (not called),
                \* "AWAIT_CLIENT_ID" (line 124), "AWAIT_CHALLENGE_RESPONSE"
                \* (line 196), "RETURNED"
  td,           \* Handshake's local td
  clientID,     \* Handshake's local clientID
  pubKey,       \* Handshake's local pubKey
  payload,      \* Handshake's local payload (the challenge bytes)
  ret,          \* the value Handshake returned
  srvReads,     \* what each conn.ReadJSON met, in order
  srvWrites,    \* each conn.WriteJSON: the message and whether the write went through
  srvEvents,    \* the order of Handshake's calls on conn: "read" / "write"
  srvDraws,     \* the outcome of each rand.Read call Handshake made
  c2s,          \* messages in flight, client to server
  s2c,          \* messages in flight, server to client
  wire,         \* the tags of all messages handed to the transport, in order
  wsReady,      \* ws.readyState
  cliPc,        \* where connect stands: "idle", "awaitOpen" (line 132),
                \* "awaitPromise" (line 211)
  currentState, \* connect's local currentState
  hasListener,  \* the "message" listener is registered
  promise,      \* the promise connect returns: "pending", "resolved", "rejected"
  signing,      \* sign calls in flight: the bytes each was given
  cliSent,      \* the messages the client passed to ws.send, in order
  cliKey,       \* the client's key pair
  cliId,        \* the id passed to connect
  unheard,      \* a message has arrived at the socket with no listener registered
  conns,        \* a server that runs several handshakes: for each connection
                \* the locals of its Handshake call, what it read and wrote,
                \* and the outcomes of its rand.Read calls
  rndDrawn,     \* the number of values the random source has yielded
  codec,        \* an identifier being encoded and decoded: the curve name and
                \* the point, the string, the result of parseClientID
  b64           \* a buffer being encoded and decoded by the browser's base64
                \* functions: the bytes, the string, the result of decodeBase64

srvVars == << srvPc, td, clientID, pubKey, payload, ret, srvReads, srvWrites,
             srvEvents, srvDraws >>
netVars == << c2s, s2c, wire >>
cliVars == << wsReady, cliPc, currentState, hasListener, promise, signing,
              cliSent, cliKey, cliId, unheard >>
otherVars == << conns, rndDrawn, codec, b64 >>
vars == << srvVars, netVars, cliVars, otherVars >>

(***************************************************************************)
(* What a peer of the server may send.                                     *)
(***************************************************************************)
ValidID(k) == getClientId(k, StrP256)

ClientIDStrings ==
  { ValidID(k) : k \in Keys }
  \cup { <<>>,
         \* no '$', two '$'
         StrSchemeP256 \o encodeBase64(ExportRaw(1)),
         ValidID(1) \o << ChDollar >>,
         \* another curve
         getClientId(1, StrP384),
         \* not base64
         StrSchemeP256 \o << ChDollar, 33, 33, 33, 33 >>,
         \* 64 and 66 bytes
         StrSchemeP256 \o << ChDollar >> \o encodeBase64(Take(ExportRaw(1), KeyLen - 1)),
         StrSchemeP256 \o << ChDollar >> \o encodeBase64(ExportRaw(1) \o << 0 >>),
         \* 65 bytes, compressed-point marker
         StrSchemeP256 \o << ChDollar >> \o encodeBase64(<< 3 >> \o Tail(ExportRaw(1))) }

SignatureStrings ==
  { encodeBase64(sign(RandomBytes(c), k)) : c \in 1..NumChallenges, k \in Keys }
  \cup { <<>>,
         \* not base64
         << 33, 33, 33, 33 >>,
         \* 32 and 65 bytes
         encodeBase64(Take(sign(RandomBytes(1), 1), CoordLen)),
         encodeBase64(sign(RandomBytes(1), 1) \o << 0 >>),
         \* key 1 over the challenge bytes themselves, not over their digest
         encodeBase64(SignBytes(1, RandomBytes(1))) }

ResponseData ==
  { JAbsent, JNull, JOther, JStr(<<>>) }
  \cup { JObj("string", sg, "string", h) :
           sg \in SignatureStrings, h \in {"SHA-256", "SHA-1"} }
  \cup { JObj("string", encodeBase64(sign(RandomBytes(1), 1)), "absent", ""),
         JObj("absent", <<>>, "string", "SHA-256"),
         JObj("other", <<>>, "string", "SHA-256"),
         JObj("other", <<>>, "string", "SHA-1"),
         JObj("string", <<>>, "other", "") }

Inputs ==
  { ReadErr, ReadOk(FALSE, "", JAbsent), ReadOk(TRUE, "FOO", JAbsent) }
  \cup { ReadOk(TRUE, "CLIENT_ID", d) :
           d \in { JAbsent, JNull, JOther } \cup { JStr(x) : x \in ClientIDStrings } }
  \cup { ReadOk(TRUE, "CHALLENGE_RESPONSE", d) : d \in ResponseData }
  \cup { ReadOk(FALSE, "", JObj("string", encodeBase64(sign(RandomBytes(1), 1)),
                                "string", "SHA-256")) }

(***************************************************************************)
(* Server actions.                                                         *)
(***************************************************************************)
\* conn.WriteJSON of each message of ws; ok tells whether the write goes through
SrvWrite(ws, ok) ==
  /\ srvWrites' = srvWrites \o [i \in 1..Len(ws) |-> [msg |-> ws[i], ok |-> ok]]
  /\ s2c' = IF ok THEN s2c \o ws ELSE s2c
  /\ wire' = IF ok THEN wire \o [i \in 1..Len(ws) |-> ws[i].type] ELSE wire

\* where Handshake stands after the steps o, with a rejection that carries no
\* error taken for a step to be tried again
PcAfterRetry(o) ==
  IF o.returns /\ (o.ret.authenticated \/ o.ret.err) THEN "RETURNED"
  ELSE "AWAIT_CHALLENGE_RESPONSE"

\* where Handshake stands after the steps o: every branch that does not end
\* in the CHALLENGE write ends in a return
PcAfter(o) == IF o.returns THEN "RETURNED" ELSE "AWAIT_CHALLENGE_RESPONSE"

SrvApply(o, in, ok) ==
  /\ td' = o.td
  /\ clientID' = o.clientID
  /\ pubKey' = o.pubKey
  /\ payload' = o.payload
  /\ ret' = o.ret
  /\ srvPc' = PcAfter(o)
  /\ srvReads' = Append(srvReads, in)
  /\ srvEvents' = Append(srvEvents, "read") \o [i \in 1..Len(o.write) |-> "write"]
  /\ SrvWrite(o.write, ok)

\* getChallengePayload is reached exactly when parseClientID gave a key
CalledRand(o) == ~o.pubKey.nil

\* Handshake(conn) is called on the upgraded connection (line 122)
SrvStart ==
  /\ srvPc = "IDLE"
  /\ srvPc' = "AWAIT_CLIENT_ID"
  /\ UNCHANGED << td, clientID, pubKey, payload, ret, srvReads, srvWrites,
                  srvEvents, srvDraws, netVars, cliVars, otherVars >>

\* lines 123-194
SrvReadClientID(in, rnd, ok) ==
  /\ srvPc = "AWAIT_CLIENT_ID"
  /\ \E o \in { Handshake1(td, in, rnd) } :
       /\ SrvApply(o, in, ok)
       /\ srvDraws' = IF CalledRand(o) THEN Append(srvDraws, rnd) ELSE srvDraws

\* lines 196-279
SrvReadChallengeResponse(in, ok) ==
  /\ srvPc = "AWAIT_CHALLENGE_RESPONSE"
  /\ \E o \in { Handshake2(td, clientID, pubKey, payload, in) } : SrvApply(o, in, ok)
  /\ UNCHANGED srvDraws

(***************************************************************************)
(* Client: connect (src/browser/src/lib.ts).                               *)
(***************************************************************************)
\* ws.send(JSON.stringify(m)): queued when the socket is open, discarded
\* when it is closing or closed
WsSend(m) ==
  /\ cliSent' = Append(cliSent, m)
  /\ c2s' = IF wsReady = "OPEN" THEN Append(c2s, m) ELSE c2s
  /\ wire' = IF wsReady = "OPEN" THEN Append(wire, m.type) ELSE wire

\* removeListener that removes nothing
RemoveListenerNoop(registered) == registered

\* lines 137-139: removeListener(); whether the listener is registered after it
RemoveListener(registered) == FALSE

\* close without its ws.close() call
CliCloseNoWsClose ==
  /\ hasListener' = RemoveListener(hasListener)
  /\ promise' = IF promise = "pending" THEN "rejected" ELSE promise
  /\ wsReady' = wsReady

\* lines 141-145: close(error)
CliClose ==
  /\ hasListener' = RemoveListener(hasListener)
  /\ promise' = IF promise = "pending" THEN "rejected" ELSE promise
  /\ wsReady' = IF wsReady \in {"CONNECTING", "OPEN"} THEN "CLOSING" ELSE wsReady

\* the transport opens
WsOpens ==
  /\ wsReady = "CONNECTING"
  /\ wsReady' = "OPEN"
  /\ UNCHANGED << srvVars, netVars, cliPc, currentState, hasListener, promise,
                  signing, cliSent, cliKey, cliId, unheard, otherVars >>

\* connect(ws, id, sign) is called and waits in onOpen (line 132)
CliCallsConnect ==
  /\ cliPc = "idle"
  /\ cliPc' = "awaitOpen"
  /\ UNCHANGED << srvVars, netVars, wsReady, currentState, hasListener, promise,
                  signing, cliSent, cliKey, cliId, unheard, otherVars >>

\* onOpen resolved although the socket is still connecting
OnOpenResolvedEarly == wsReady \in { "CONNECTING", "OPEN" }

\* lines 108-117: the promise of onOpen is resolved when the socket is open at
\* the call, or by the "open" event
OnOpenResolved == wsReady = "OPEN"

\* lines 132-211: onOpen has resolved; the listener is registered, CLIENT_ID sent
CliConnected ==
  /\ cliPc = "awaitOpen"
  /\ OnOpenResolved
  /\ cliPc' = "awaitPromise"
  /\ currentState' = "CONNECTING"
  /\ hasListener' = TRUE
  /\ WsSend(Msg("CLIENT_ID", JStr(cliId)))
  /\ UNCHANGED << srvVars, s2c, wsReady, promise, signing, cliKey, cliId, unheard, otherVars >>

\* a frame whose text is not JSON, and one whose text is the JSON null
NotJSON == [type |-> "", data |-> JAbsent, text |-> "invalid"]
NullJSON == [type |-> "", data |-> JAbsent, text |-> "null"]

\* JSON.parse(event.data) throws (line 148), or data is null and data.type
\* throws (lines 153, 186): the exception leaves the listener
ListenerThrows(m) == "text" \in DOMAIN m

\* case "CHALLENGE" (line 154)
IsChallenge(t) == t = "CHALLENGE"

\* IsSignatureMatches with SIGNATURE_MISMATCH taken for a match too
IsVerdict(t) == t \in { "SIGNATURE_MATCHES", "SIGNATURE_MISMATCH" }

\* case "SIGNATURE_MATCHES" (line 187)
IsSignatureMatches(t) == t = "SIGNATURE_MATCHES"

\* lines 147-200: the listener, on the message m
CliListener(m) ==
  IF ListenerThrows(m)
  THEN UNCHANGED << hasListener, promise, wsReady, currentState, signing >>
  ELSE
  IF currentState = "CONNECTING"
  THEN IF IsChallenge(m.type)
       THEN \E d \in { IF m.data.kind = "string" THEN decodeBase64(m.data.str)
                        ELSE [throws |-> TRUE, bytes |-> <<>>] } :
              /\ signing' = IF d.throws THEN signing ELSE Append(signing, d.bytes)
              /\ UNCHANGED << hasListener, promise, wsReady, currentState >>
       ELSE CliClose /\ UNCHANGED << signing, currentState >>
  ELSE IF IsSignatureMatches(m.type)
       THEN /\ hasListener' = RemoveListener(hasListener)
            /\ promise' = IF promise = "pending" THEN "resolved" ELSE promise
            /\ UNCHANGED << signing, wsReady, currentState >>
       ELSE CliClose /\ UNCHANGED << signing, currentState >>

\* a message arrives at the socket; without a listener nobody sees it
CliOnMessage ==
  /\ s2c # <<>>
  /\ wsReady = "OPEN"
  /\ s2c' = Tail(s2c)
  /\ IF hasListener
     THEN CliListener(Head(s2c))
     ELSE UNCHANGED << hasListener, promise, wsReady, currentState, signing >>
  /\ unheard' = (unheard \/ ~hasListener)
  /\ UNCHANGED << srvVars, c2s, wire, cliPc, cliSent, cliKey, cliId, otherVars >>

\* lines 157-172: a sign call settles; ok: it yields the signature
CliSignSettles(i, ok) ==
  /\ i \in DOMAIN signing
  /\ signing' = [j \in 1..(Len(signing) - 1) |->
                   IF j < i THEN signing[j] ELSE signing[j + 1]]
  /\ IF ok
     THEN /\ WsSend(Msg("CHALLENGE_RESPONSE",
                        JObj("string", encodeBase64(sign(signing[i], cliKey)),
                             "string", "SHA-256")))
          /\ currentState' = "SENT_CHALLENGE"
          /\ UNCHANGED << hasListener, promise, wsReady >>
     ELSE /\ CliClose
          /\ UNCHANGED << c2s, wire, cliSent, currentState >>
  /\ UNCHANGED << srvVars, s2c, cliPc, cliKey, cliId, unheard, otherVars >>

(***************************************************************************)
(* Spec: the server against an arbitrary peer over a transport that may    *)
(* fail.  The peer's messages, the outcome of rand.Read and the outcome of *)
(* each write are chosen freely.                                           *)
(***************************************************************************)
\* the connections of a server that runs several handshakes
Conns == 1..NumConns

\* Handshake has been called on the connection and stands at its first read
ConnInit ==
  [pc |-> "AWAIT_CLIENT_ID", td |-> TdZero, clientID |-> <<>>, pubKey |-> NilKey,
   payload |-> <<>>, ret |-> NoRet, reads |-> <<>>, writes |-> <<>>, draws |-> <<>>]

\* no identifier is being encoded
CodecIdle ==
  [pc |-> "idle", curve |-> <<>>, x |-> <<>>, y |-> <<>>, id |-> <<>>,
   out |-> [err |-> FALSE, key |-> NilKey]]

\* no buffer is being encoded
B64Idle ==
  [pc |-> "idle", buf |-> <<>>, text |-> <<>>, out |-> [throws |-> FALSE, bytes |-> <<>>]]

InitCommon ==
  /\ td = TdZero
  /\ clientID = <<>>
  /\ pubKey = NilKey
  /\ payload = <<>>
  /\ ret = NoRet
  /\ srvReads = <<>>
  /\ srvWrites = <<>>
  /\ srvEvents = <<>>
  /\ srvDraws = <<>>
  /\ c2s = <<>>
  /\ s2c = <<>>
  /\ wire = <<>>
  /\ currentState = "CONNECTING"
  /\ hasListener = FALSE
  /\ promise = "pending"
  /\ signing = <<>>
  /\ cliSent = <<>>
  /\ unheard = FALSE
  /\ conns = [c \in Conns |-> ConnInit]
  /\ rndDrawn = 0

Init ==
  /\ InitCommon
  /\ srvPc = "AWAIT_CLIENT_ID"
  /\ wsReady = "OPEN"
  /\ cliPc = "idle"
  /\ cliKey = 1
  /\ cliId = <<>>
  /\ codec = CodecIdle
  /\ b64 = B64Idle

PeerSendsClientID ==
  \E in \in Inputs, rnd \in RandOutcomes, ok \in BOOLEAN :
    /\ SrvReadClientID(in, rnd, ok)
    /\ UNCHANGED << c2s, cliVars, otherVars >>

PeerSendsChallengeResponse ==
  \E in \in Inputs, ok \in BOOLEAN :
    /\ SrvReadChallengeResponse(in, ok)
    /\ UNCHANGED << c2s, cliVars, otherVars >>

Next == PeerSendsClientID \/ PeerSendsChallengeResponse

Spec == Init /\ [][Next]_vars

(***************************************************************************)
(* SpecE2E: connect and Handshake on the two ends of one connection, over  *)
(* a transport that delivers every message once and in order; rand.Read    *)
(* and sign succeed.                                                       *)
(***************************************************************************)
InitE2E ==
  /\ InitCommon
  /\ srvPc = "IDLE"
  /\ wsReady = "CONNECTING"
  /\ cliPc = "idle"
  /\ cliKey \in Keys
  /\ cliId = ValidID(cliKey)
  /\ codec = CodecIdle
  /\ b64 = B64Idle

\* the JSON text of m as conn.ReadJSON meets it
Delivered(m) == ReadOk(TRUE, m.type, m.data)

E2EServerClientID ==
  /\ c2s # <<>>
  /\ \E rnd \in RandGood : SrvReadClientID(Delivered(Head(c2s)), rnd, TRUE)
  /\ c2s' = Tail(c2s)
  /\ UNCHANGED << cliVars, otherVars >>

E2EServerChallengeResponse ==
  /\ c2s # <<>>
  /\ SrvReadChallengeResponse(Delivered(Head(c2s)), TRUE)
  /\ c2s' = Tail(c2s)
  /\ UNCHANGED << cliVars, otherVars >>

E2ESigned == \E i \in DOMAIN signing : CliSignSettles(i, TRUE)

NextE2E ==
  \/ SrvStart
  \/ WsOpens
  \/ CliCallsConnect
  \/ CliConnected
  \/ CliOnMessage
  \/ E2ESigned
  \/ E2EServerClientID
  \/ E2EServerChallengeResponse

SpecE2E == InitE2E /\ [][NextE2E]_vars /\ WF_vars(NextE2E)

(***************************************************************************)
(* SpecAgree: connect and Handshake on the two ends of one connection, over *)
(* a transport that delivers every message once and in order, with what    *)
(* the caller of connect and the machine of the server may do wrong: the   *)
(* id passed to connect is of the signing key pair, of another key pair,   *)
(* of another curve or empty; a sign call resolves or rejects; rand.Read   *)
(* succeeds or fails.                                                      *)
(***************************************************************************)
AgreeIDs == { ValidID(1), ValidID(2), getClientId(1, StrP384), <<>> }

InitAgree ==
  /\ InitCommon
  /\ srvPc = "IDLE"
  /\ wsReady = "CONNECTING"
  /\ cliPc = "idle"
  /\ cliKey \in Keys
  /\ cliId \in AgreeIDs
  /\ codec = CodecIdle
  /\ b64 = B64Idle

AgreeServerClientID ==
  /\ c2s # <<>>
  /\ \E rnd \in RandOutcomes : SrvReadClientID(Delivered(Head(c2s)), rnd, TRUE)
  /\ c2s' = Tail(c2s)
  /\ UNCHANGED << cliVars, otherVars >>

AgreeSignSettles == \E i \in DOMAIN signing, ok \in BOOLEAN : CliSignSettles(i, ok)

NextAgree ==
  \/ SrvStart
  \/ WsOpens
  \/ CliCallsConnect
  \/ CliConnected
  \/ CliOnMessage
  \/ AgreeSignSettles
  \/ AgreeServerClientID
  \/ E2EServerChallengeResponse

SpecAgree == InitAgree /\ [][NextAgree]_vars

(***************************************************************************)
(* SpecCli: connect against an arbitrary peer.  The socket is connecting   *)
(* or open when connect is called; the peer sends any frames; each sign    *)
(* call resolves or rejects; the transport may close at any time.          *)
(***************************************************************************)
\* the continuation of "await onOpen(ws)" is a pending microtask: it runs
\* before any other event is handled
MicrotaskPending == cliPc = "awaitOpen" /\ OnOpenResolved

\* what a peer of the client may send
CliFrames ==
  { NotJSON, NullJSON,
    Msg("CHALLENGE", JStr(StdEncodeToString(RandomBytes(1)))),
    \* data that is not base64, that is absent, that is no string
    Msg("CHALLENGE", JStr(<< 33, 33 >>)),
    Msg("CHALLENGE", JAbsent),
    Msg("CHALLENGE", JOther),
    Msg("SIGNATURE_MATCHES", JAbsent),
    Msg("SIGNATURE_MISMATCH", JAbsent),
    Msg("UNSUPPORTED_HASH", JText(<<>>)),
    Msg("CLIENT_ERROR", JText(<<>>)),
    Msg("SERVER_ERROR", JText(<<>>)),
    \* an object without "type"
    Msg("", JAbsent) }

InitCli ==
  /\ InitCommon
  /\ srvPc = "IDLE"
  /\ wsReady \in { "CONNECTING", "OPEN" }
  /\ cliPc = "idle"
  /\ cliKey = 1
  /\ cliId = ValidID(1)
  /\ codec = CodecIdle
  /\ b64 = B64Idle

PeerFrame ==
  \E m \in CliFrames :
    /\ ~MicrotaskPending
    /\ wsReady = "OPEN"
    /\ Len(s2c) < MaxInFlight
    /\ Len(s2c) + Len(signing) + Len(cliSent) < MaxLoad
    /\ s2c' = Append(s2c, m)
    /\ UNCHANGED << srvVars, c2s, wire, cliVars, otherVars >>

CliFrameArrives == ~MicrotaskPending /\ CliOnMessage

CliSign == \E i \in DOMAIN signing, ok \in BOOLEAN : CliSignSettles(i, ok)

\* the transport closes, or fails to open; connect listens to neither event
WsCloses ==
  /\ ~MicrotaskPending
  /\ wsReady # "CLOSED"
  /\ wsReady' = "CLOSED"
  /\ UNCHANGED << srvVars, netVars, cliPc, currentState, hasListener, promise,
                  signing, cliSent, cliKey, cliId, unheard, otherVars >>

NextCli ==
  \/ CliCallsConnect
  \/ WsOpens
  \/ CliConnected
  \/ PeerFrame
  \/ CliFrameArrives
  \/ CliSign
  \/ WsCloses

\* the event loop runs every pending continuation and handler
SpecCli ==
  InitCli /\ [][NextCli]_vars /\ WF_vars(CliConnected) /\ WF_vars(CliFrameArrives)

(***************************************************************************)
(* SpecCancel: connect and Handshake on the two ends of one connection     *)
(* that may close at any time.  What the client sent before the closure    *)
(* can still be read; after it a read fails and a write fails.             *)
(***************************************************************************)
CancelServerClientID ==
  /\ c2s # <<>>
  /\ \E rnd \in RandGood :
       SrvReadClientID(Delivered(Head(c2s)), rnd, wsReady = "OPEN")
  /\ c2s' = Tail(c2s)
  /\ UNCHANGED << cliVars, otherVars >>

CancelServerChallengeResponse ==
  /\ c2s # <<>>
  /\ SrvReadChallengeResponse(Delivered(Head(c2s)), wsReady = "OPEN")
  /\ c2s' = Tail(c2s)
  /\ UNCHANGED << cliVars, otherVars >>

\* conn.ReadJSON returns the error of the closed connection
ServerReadFails ==
  /\ wsReady = "CLOSED"
  /\ c2s = <<>>
  /\ \/ \E rnd \in RandGood : SrvReadClientID(ReadErr, rnd, FALSE)
     \/ SrvReadChallengeResponse(ReadErr, FALSE)
  /\ UNCHANGED << c2s, cliVars, otherVars >>

NextCancel ==
  \/ SrvStart
  \/ WsOpens
  \/ CliCallsConnect
  \/ CliConnected
  \/ CliFrameArrives
  \/ E2ESigned
  \/ CancelServerClientID
  \/ CancelServerChallengeResponse
  \/ ServerReadFails
  \/ WsCloses

\* every step but the closure of the transport is taken once it can be
SpecCancel ==
  /\ InitE2E
  /\ [][NextCancel]_vars
  /\ WF_vars(SrvStart)
  /\ WF_vars(WsOpens)
  /\ WF_vars(CliCallsConnect)
  /\ WF_vars(CliConnected)
  /\ WF_vars(CliFrameArrives)
  /\ WF_vars(E2ESigned)
  /\ WF_vars(CancelServerClientID)
  /\ WF_vars(CancelServerChallengeResponse)
  /\ WF_vars(ServerReadFails)

(***************************************************************************)
(* SpecTwo: one server, a Handshake call on each of several connections,   *)
(* their steps interleaved.  The calls share nothing but the random        *)
(* source, crypto/rand, which never yields the same 128 bytes twice: its   *)
(* next value is numbered rndDrawn + 1.  Every write goes through.         *)
(***************************************************************************)
\* the payload of the most recent call of getChallengePayload, as one
\* variable shared by all Handshake calls would hold it
LastPayload(c) == IF rndDrawn = 0 THEN <<>> ELSE RandomBytes(rndDrawn)

\* payload, declared in Handshake (line 173): each call has its own
PayloadOf(c) == conns[c].payload

\* the locals and the record of a connection after the steps o, made on
\* reading in; drew: the outcomes of the rand.Read calls made in them
ConnApply(L, o, in, drew) ==
  [pc |-> PcAfter(o),
   td |-> o.td, clientID |-> o.clientID, pubKey |-> o.pubKey,
   payload |-> o.payload, ret |-> o.ret,
   reads |-> Append(L.reads, in), writes |-> L.writes \o o.write,
   draws |-> L.draws \o drew]

\* every connection is offered the identifier of the same key pair
TwoFirstInputs ==
  { ReadErr,
    ReadOk(TRUE, "CLIENT_ID", JStr(ValidID(1))),
    ReadOk(TRUE, "CLIENT_ID", JStr(getClientId(1, StrP384))) }

\* the signature of that key pair over each challenge the source can have
\* yielded, and one of another key pair
TwoSecondInputs ==
  { ReadErr,
    ReadOk(TRUE, "CHALLENGE_RESPONSE",
           JObj("string", encodeBase64(sign(RandomBytes(1), 2)), "string", "SHA-256")) }
  \cup { ReadOk(TRUE, "CHALLENGE_RESPONSE",
                JObj("string", encodeBase64(sign(RandomBytes(d), 1)), "string", "SHA-256")) :
           d \in 1..NumConns }

InitTwo ==
  /\ InitCommon
  /\ srvPc = "IDLE"
  /\ wsReady = "CONNECTING"
  /\ cliPc = "idle"
  /\ cliKey = 1
  /\ cliId = <<>>
  /\ codec = CodecIdle
  /\ b64 = B64Idle

\* lines 123-194 on connection c
TwoReadClientID(c, in, rndOk) ==
  /\ conns[c].pc = "AWAIT_CLIENT_ID"
  /\ \E rnd \in { [err |-> ~rndOk, n |-> IF rndOk THEN challengeByteLength ELSE 0,
                    c |-> rndDrawn + 1] } :
       \E o \in { Handshake1(conns[c].td, in, rnd) } :
         /\ conns' = [conns EXCEPT ![c] =
                        ConnApply(@, o, in, IF CalledRand(o) THEN << rnd >> ELSE <<>>)]
         /\ rndDrawn' = IF CalledRand(o) /\ rndOk THEN rndDrawn + 1 ELSE rndDrawn
  /\ UNCHANGED << srvVars, netVars, cliVars, codec, b64 >>

\* lines 196-279 on connection c
TwoReadChallengeResponse(c, in) ==
  /\ conns[c].pc = "AWAIT_CHALLENGE_RESPONSE"
  /\ \E o \in { Handshake2(conns[c].td, conns[c].clientID, conns[c].pubKey,
                            PayloadOf(c), in) } :
       conns' = [conns EXCEPT ![c] = ConnApply(@, o, in, <<>>)]
  /\ UNCHANGED << srvVars, netVars, cliVars, rndDrawn, codec, b64 >>

TwoFirstRead ==
  \E c \in Conns, in \in TwoFirstInputs, rndOk \in BOOLEAN : TwoReadClientID(c, in, rndOk)

TwoSecondRead ==
  \E c \in Conns, in \in TwoSecondInputs : TwoReadChallengeResponse(c, in)

NextTwo == TwoFirstRead \/ TwoSecondRead

SpecTwo == InitTwo /\ [][NextTwo]_vars

(***************************************************************************)
(* The identifier codec on its own: getClientId (main.ts 35-46) encodes a  *)
(* point of a curve, parseClientID (lib.go 68-102) decodes the string.     *)
(* The point is any pair of coordinates of the curve's length, some with    *)
(* leading zero bytes; neither function checks that it lies on the curve.  *)
(***************************************************************************)
\* namedCurve of the key's algorithm
Curves == { StrP256, StrP384 }

\* the length in bytes of a coordinate in exportKey("raw", ...)
CurveCoordLen(curve) == IF curve = StrP256 THEN CoordLen ELSE 48

\* the n-th coordinate of that length; n % 3 leading zero bytes
Coord(n, len) == [i \in 1..len |-> IF i <= n % 3 THEN 0 ELSE ((7 * i) + (13 * n)) % 256]

\* Curve: elliptic.P256() of the key parseClientID returns
ParsedCurve == StrP256

InitCodec ==
  /\ InitCommon
  /\ srvPc = "IDLE"
  /\ wsReady = "CONNECTING"
  /\ cliPc = "idle"
  /\ cliKey = 1
  /\ cliId = <<>>
  /\ b64 = B64Idle
  /\ codec \in { [pc |-> "start", curve |-> c,
                  x |-> Coord(i, CurveCoordLen(c)), y |-> Coord(j, CurveCoordLen(c)),
                  id |-> <<>>, out |-> [err |-> FALSE, key |-> NilKey]] :
                   c \in Curves, i \in 0..(NumCoords - 1), j \in 0..(NumCoords - 1) }

\* getClientId
CodecEncode ==
  /\ codec.pc = "start"
  /\ codec' = [codec EXCEPT !.pc = "encoded",
                            !.id = ClientIdOf(RawPoint(codec.x, codec.y), codec.curve)]
  /\ UNCHANGED << srvVars, netVars, cliVars, conns, rndDrawn, b64 >>

\* parseClientID
CodecDecode ==
  /\ codec.pc = "encoded"
  /\ codec' = [codec EXCEPT !.pc = "decoded", !.out = parseClientID(codec.id)]
  /\ UNCHANGED << srvVars, netVars, cliVars, conns, rndDrawn, b64 >>

NextCodec == CodecEncode \/ CodecDecode

SpecCodec == InitCodec /\ [][NextCodec]_vars

(***************************************************************************)
(* The browser's base64 functions on their own: encodeBase64 (lib.ts       *)
(* 30-65) applied to a buffer, decodeBase64 (lib.ts 72-106) to its result. *)
(***************************************************************************)
\* byte values with the high or the low bits of each sextet set and clear
ByteSamples == { 0, 90, 165, 255 }

\* the buffers of up to MaxBufLen bytes
Buffers == UNION { [1..n -> ByteSamples] : n \in 0..MaxBufLen }

InitB64 ==
  /\ InitCommon
  /\ srvPc = "IDLE"
  /\ wsReady = "CONNECTING"
  /\ cliPc = "idle"
  /\ cliKey = 1
  /\ cliId = <<>>
  /\ codec = CodecIdle
  /\ b64 \in { [pc |-> "start", buf |-> b, text |-> <<>>,
                 out |-> [throws |-> FALSE, bytes |-> <<>>]] : b \in Buffers }

\* encodeBase64(buffer)
B64Encode ==
  /\ b64.pc = "start"
  /\ b64' = [b64 EXCEPT !.pc = "encoded", !.text = encodeBase64(b64.buf)]
  /\ UNCHANGED << srvVars, netVars, cliVars, conns, rndDrawn, codec >>

\* decodeBase64(base64)
B64Decode ==
  /\ b64.pc = "encoded"
  /\ b64' = [b64 EXCEPT !.pc = "decoded", !.out = decodeBase64(b64.text)]
  /\ UNCHANGED << srvVars, netVars, cliVars, conns, rndDrawn, codec >>

NextB64 == B64Encode \/ B64Decode

SpecB64 == InitB64 /\ [][NextB64]_vars

(***************************************************************************)
(* What the claims speak of, read off the record of the connection         *)
(* (srvReads, srvWrites, srvEvents) and the returned value, not off        *)
(* Handshake's locals.                                                     *)
(***************************************************************************)
Returned == srvPc = "RETURNED"

Read1 == srvReads[1]

Read2 == srvReads[2]

LastWrite == srvWrites[Len(srvWrites)]

Wrote(type) == \E i \in DOMAIN srvWrites : srvWrites[i].msg.type = type

\* the first read delivered a CLIENT_ID envelope whose data is a string
GotClientIDString ==
  /\ Len(srvReads) >= 1
  /\ ~Read1.err
  /\ Read1.hasType
  /\ Read1.type = "CLIENT_ID"
  /\ Read1.data.kind = "string"

ReceivedID == Read1.data.str

\* section 4.1: exactly one '$', the scheme "WebCrypto-raw.EC.P-256", then the
\* base64 of 65 bytes of which the first is 0x04
IDBody(str) ==
  LET i == CHOOSE i \in 1..Len(str) : str[i] = ChDollar
  IN StdDecodeString(SubSeq(str, i + 1, Len(str)))

WellFormedID(str) ==
  /\ Cardinality({ i \in 1..Len(str) : str[i] = ChDollar }) = 1
  /\ LET i == CHOOSE i \in 1..Len(str) : str[i] = ChDollar
     IN SubSeq(str, 1, i - 1) = StrPrefix \o StrP256
  /\ ~IDBody(str).err
  /\ Len(IDBody(str).bytes) = KeyLen
  /\ IDBody(str).bytes[1] = PointMarker

\* the first write of the handshake is a CHALLENGE
ChallengeIssued ==
  /\ Len(srvWrites) >= 1
  /\ srvWrites[1].msg.type = "CHALLENGE"
  /\ srvWrites[1].msg.data.kind = "string"

IssuedBytes == StdDecodeString(srvWrites[1].msg.data.str).bytes

\* the second read delivered a CHALLENGE_RESPONSE envelope whose data is an
\* object with no member of a wrong type
GotResponse ==
  /\ Len(srvReads) >= 2
  /\ ~Read2.err
  /\ Read2.hasType
  /\ Read2.type = "CHALLENGE_RESPONSE"
  /\ Read2.data.kind = "object"
  /\ Read2.data.sigKind # "other"
  /\ Read2.data.hashKind # "other"

RespHash == IF Read2.data.hashKind = "string" THEN Read2.data.hash ELSE ""

RespSig == StdDecodeString(IF Read2.data.sigKind = "string" THEN Read2.data.sig ELSE <<>>)

\* sigBytes is the signature of some key pair over the SHA-256 digest of
\* challengeBytes, and keyRaw is that pair's public point
ValidSignature(keyRaw, challengeBytes, sigBytes) ==
  \E k \in Keys : keyRaw = ExportRaw(k) /\ sigBytes = sign(challengeBytes, k)

SoundConditions ==
  /\ GotClientIDString
  /\ WellFormedID(ReceivedID)
  /\ ChallengeIssued
  /\ Len(IssuedBytes) = challengeByteLength
  /\ GotResponse
  /\ RespHash = "SHA-256"
  /\ ~RespSig.err
  /\ Len(RespSig.bytes) = SigLen
  /\ ValidSignature(IDBody(ReceivedID).bytes, IssuedBytes, RespSig.bytes)
  /\ SubSeq(srvEvents, 1, 3) = << "read", "write", "read" >>

\* C1: Handshake returns authenticated = true, and sends SIGNATURE_MATCHES,
\* only if on this connection it read a CLIENT_ID whose string is a well-formed
\* P-256 identifier, then wrote a CHALLENGE, then read a CHALLENGE_RESPONSE
\* with hash "SHA-256" and a 64-byte signature that verifies under that key
\* against the digest of the challenge it wrote; otherwise it returns false.
C1_Soundness ==
  /\ (Returned /\ ret.authenticated) => SoundConditions
  /\ Wrote("SIGNATURE_MATCHES") => SoundConditions
  /\ (Returned /\ ~SoundConditions) => ~ret.authenticated

C1_Witness == Returned /\ ret.authenticated /\ Wrote("SIGNATURE_MATCHES")

\* the four tags of a successful handshake, in order
FourMessages == << "CLIENT_ID", "CHALLENGE", "CHALLENGE_RESPONSE", "SIGNATURE_MATCHES" >>

BothAuthenticated ==
  /\ Returned
  /\ ret.authenticated
  /\ promise = "resolved"

\* C2: with a valid key pair, a sign capability that succeeds, an honest
\* server and a transport that delivers once and in order, the messages
\* handed to the transport are at every moment a prefix of CLIENT_ID,
\* CHALLENGE, CHALLENGE_RESPONSE, SIGNATURE_MATCHES, and eventually all four
\* have been exchanged, Handshake has returned true and the connect promise
\* has resolved, for good.
C2_EndToEnd ==
  /\ [](wire = SubSeq(FourMessages, 1, Len(wire)))
  /\ <>[](BothAuthenticated /\ wire = FourMessages /\ c2s = <<>> /\ s2c = <<>>)

C2_Witness == BothAuthenticated /\ wire = FourMessages

\* C3: a CLIENT_ID whose string is malformed in any way (separator count,
\* scheme, base64, length, leading byte) makes the server write CLIENT_ERROR
\* as its only message and return false; no challenge is generated or sent.
C3_MalformedIDRejected ==
  (GotClientIDString /\ ~WellFormedID(ReceivedID)) =>
    /\ parseClientID(ReceivedID).err
    /\ Returned
    /\ ~ret.authenticated
    /\ Len(srvReads) = 1
    /\ Len(srvWrites) = 1
    /\ srvWrites[1].msg.type = "CLIENT_ERROR"
    /\ payload = <<>>
    /\ ~Wrote("CHALLENGE")

C3_Witness ==
  /\ GotClientIDString
  /\ ReceivedID = getClientId(1, StrP384)
  /\ Returned
  /\ Wrote("CLIENT_ERROR")

\* the response carries a hash other than "SHA-256"
ResponseHashDiffers ==
  /\ Len(srvReads) >= 2
  /\ ~Read2.err
  /\ Read2.hasType
  /\ Read2.type = "CHALLENGE_RESPONSE"
  /\ Read2.data.kind = "object"
  /\ ~(Read2.data.hashKind = "string" /\ Read2.data.hash = "SHA-256")

RepliedUnsupportedHash ==
  /\ Returned
  /\ ~ret.authenticated
  /\ Len(srvWrites) = 2
  /\ LastWrite.msg.type = "UNSUPPORTED_HASH"

C5_WrongLength ==
  (GotResponse /\ RespHash = "SHA-256" /\ ~RespSig.err /\ Len(RespSig.bytes) # SigLen) =>
    /\ Returned
    /\ ~ret.authenticated
    /\ ~ret.err
    /\ Len(srvWrites) = 2
    /\ LastWrite.msg = Msg("SIGNATURE_MISMATCH", JText(Itoa(Len(RespSig.bytes))))

C5_Witness ==
  /\ GotResponse
  /\ RespHash = "SHA-256"
  /\ ~RespSig.err
  /\ Len(RespSig.bytes) = CoordLen
  /\ LastWrite.msg.data.str = << 51, 50 >>

\* a response of the right shape: hash "SHA-256", 64 bytes of signature
StructurallyValidResponse ==
  /\ GotResponse
  /\ RespHash = "SHA-256"
  /\ ~RespSig.err
  /\ Len(RespSig.bytes) = SigLen

\* C6: a structurally valid signature that does not verify under the stored
\* key against the digest of the issued challenge is answered with
\* SIGNATURE_MISMATCH and rejected; SIGNATURE_MATCHES is never written.
C6_BadSignature ==
  (StructurallyValidResponse
     /\ ~ValidSignature(IDBody(ReceivedID).bytes, IssuedBytes, RespSig.bytes)) =>
    /\ Returned
    /\ ~ret.authenticated
    /\ Len(srvWrites) = 2
    /\ LastWrite.msg.type = "SIGNATURE_MISMATCH"
    /\ ~Wrote("SIGNATURE_MATCHES")

\* a signature of another key pair over the digest of the issued challenge
C6_Witness ==
  /\ StructurallyValidResponse
  /\ \E k \in Keys : /\ RespSig.bytes = sign(IssuedBytes, k)
                     /\ IDBody(ReceivedID).bytes # ExportRaw(k)
  /\ LastWrite.msg.type = "SIGNATURE_MISMATCH"

\* the tag of the envelope the i-th read delivered ("" when it has none)
EnvelopeType(i) == IF srvReads[i].hasType THEN srvReads[i].type ELSE ""

ExpectedType(i) == IF i = 1 THEN "CLIENT_ID" ELSE "CHALLENGE_RESPONSE"

\* the last read delivered an envelope of a tag the state does not expect
OutOfState ==
  /\ srvReads # <<>>
  /\ ~srvReads[Len(srvReads)].err
  /\ EnvelopeType(Len(srvReads)) # ExpectedType(Len(srvReads))

\* C7: an envelope whose tag is not the one the state expects (CLIENT_ID at
\* the first read, CHALLENGE_RESPONSE at the second) makes the server write
\* CLIENT_ERROR and return false with a nil error, without another read.
C7_OutOfState ==
  OutOfState =>
    /\ Returned
    /\ ~ret.authenticated
    /\ ~ret.err
    /\ Len(srvWrites) = Len(srvReads)
    /\ LastWrite.msg.type = "CLIENT_ERROR"
    /\ srvEvents[Len(srvEvents)] = "write"

\* at the second read, a well-signed response
\* under a tag other than CHALLENGE_RESPONSE (or under none)
C7_Witness ==
  /\ OutOfState
  /\ Len(srvReads) = 2
  /\ Read2.data.kind = "object"
  /\ Read2.data.hash = "SHA-256"
  /\ Read2.data.sig = encodeBase64(sign(IssuedBytes, 1))
  /\ ReceivedID = ValidID(1)
  /\ LastWrite.msg.type = "CLIENT_ERROR"

\* the last read failed (transport error, or text that does not parse)
LastReadFailed == srvReads # <<>> /\ srvReads[Len(srvReads)].err

SomeWriteFailed == \E i \in DOMAIN srvWrites : ~srvWrites[i].ok

\* C9: once a write has failed the handshake is over: Handshake has returned,
\* with authenticated = false and a non-nil error, and reads no more.
C9_WriteFailure ==
  SomeWriteFailed =>
    /\ Returned
    /\ ~ret.authenticated
    /\ ret.err

\* C10: on a return of true the error is nil and the identifier returned is
\* the string of the CLIENT_ID envelope; on a return with an error
\* authenticated is false; and on every return after a CLIENT_ID string was
\* read the identifier returned is that string.
C10_OutputContract ==
  Returned =>
    /\ ret.authenticated => (~ret.err /\ GotClientIDString /\ ret.clientID = ReceivedID)
    /\ ret.err => ~ret.authenticated
    /\ GotClientIDString => ret.clientID = ReceivedID

\* returns with the identifier: accepted, rejected with an error, rejected
\* without one
C10_Witness ==
  /\ Returned
  /\ GotClientIDString
  /\ ret.clientID = ValidID(2)
  /\ ~ret.authenticated
  /\ ret.err
  /\ Len(srvReads) = 2

(***************************************************************************)
(* The client.  A step in which the listener takes the frame at the head   *)
(* of s2c is the only one that shortens s2c.                               *)
(***************************************************************************)
\* this step hands the frame at the head of s2c to the registered listener
ListenerTakes == s2c # <<>> /\ s2c' = Tail(s2c) /\ hasListener

\* the frame at the head of s2c is JSON that carries members
Parsed == Head(s2c) \notin { NotJSON, NullJSON }

\* this step is the rejection of a sign call: nothing is sent
SignRejects == Len(signing') < Len(signing) /\ cliSent' = cliSent

\* FAILED: promise rejected, listener removed, ws.close() called
Aborted ==
  /\ promise = "rejected"
  /\ ~hasListener
  /\ wsReady \in { "CLOSING", "CLOSED" }

\* C11: while the client is in CONNECTING, a step in which the listener takes
\* a message whose type is not CHALLENGE, and a step in which a sign call
\* rejects, each end with the connect promise rejected, the message listener
\* removed and the transport closing or closed.
C11_ConnectingAborts ==
  [][ /\ (ListenerTakes /\ currentState = "CONNECTING" /\ Parsed
           /\ Head(s2c).type # "CHALLENGE") => Aborted'
      /\ (currentState = "CONNECTING" /\ SignRejects) => Aborted' ]_vars

C11_Witness ==
  /\ Aborted
  /\ currentState = "CONNECTING"
  /\ wsReady = "CLOSING"
  /\ Len(cliSent) = 1

\* AUTHENTICATED on the client: promise resolved, transport left open
Resolved == promise = "resolved"

\* C12: while the client has sent its response (currentState SENT_CHALLENGE),
\* a step in which the listener takes SIGNATURE_MATCHES resolves the promise
\* and leaves the socket open; one in which it takes a message of any other
\* type rejects the promise and closes the socket; and the promise becomes
\* resolved in no other step than the first kind.
C12_SentResponse ==
  [][ /\ (ListenerTakes /\ currentState = "SENT_CHALLENGE" /\ Parsed
           /\ Head(s2c).type = "SIGNATURE_MATCHES") =>
            (Resolved' /\ wsReady = "OPEN" /\ wsReady' = "OPEN")
      /\ (ListenerTakes /\ currentState = "SENT_CHALLENGE" /\ Parsed
           /\ Head(s2c).type # "SIGNATURE_MATCHES") => Aborted'
      /\ (~Resolved /\ Resolved') =>
            (ListenerTakes /\ currentState = "SENT_CHALLENGE" /\ Parsed
             /\ Head(s2c).type = "SIGNATURE_MATCHES") ]_vars

C12_Witness ==
  /\ Resolved
  /\ currentState = "SENT_CHALLENGE"
  /\ wsReady = "OPEN"
  /\ ~hasListener

\* the CLIENT_ID message of this client
ClientIDMsg == Msg("CLIENT_ID", JStr(cliId))

\* C13: the client passes CLIENT_ID to ws.send at most once and as its first
\* message; the step that sends it starts with the socket open, hands the
\* message to the transport and ends with the listener registered; the
\* listener stays registered while the promise is pending; and once connect
\* waits on an open socket (open at the call, or opened since) CLIENT_ID is
\* eventually sent.
C13_ClientIDOnce ==
  /\ [](/\ Cardinality({ i \in DOMAIN cliSent : cliSent[i].type = "CLIENT_ID" }) <= 1
        /\ cliSent # <<>> => cliSent[1] = ClientIDMsg
        /\ (cliSent # <<>> /\ promise = "pending") => hasListener)
  /\ [][ (cliSent = <<>> /\ cliSent' # <<>>) =>
            (wsReady = "OPEN" /\ hasListener' /\ c2s' = << ClientIDMsg >>) ]_vars
  /\ ((cliPc = "awaitOpen" /\ wsReady = "OPEN") ~> (cliSent # <<>>))

\* CLIENT_ID is the one message sent, and the listener is registered
C13_Witness ==
  /\ cliSent = << ClientIDMsg >>
  /\ c2s = << ClientIDMsg >>
  /\ hasListener
  /\ s2c = <<>>

\* C14: once the transport has closed (or failed to open), Handshake
\* eventually has returned and the connect promise eventually is settled.
C14_Cancellation == (wsReady = "CLOSED") ~> (Returned /\ promise # "pending")

\* the server's half of C14: after the closure Handshake eventually has returned
ServerReturnsAfterClosure == (wsReady = "CLOSED") ~> Returned

\* C15: once the client has aborted (promise rejected, ws.close() called) no
\* step passes another message to ws.send.
C15_NoSendAfterAbort ==
  [][ (promise = "rejected" /\ wsReady \in { "CLOSING", "CLOSED" }) =>
        cliSent' = cliSent ]_vars

\* the frame at the head of s2c is not JSON, or is a CHALLENGE whose data is
\* not a string of the base64 form
MalformedFrame ==
  \/ Head(s2c) = NotJSON
  \/ /\ Parsed
     /\ Head(s2c).type = "CHALLENGE"
     /\ (Head(s2c).data.kind # "string" \/ ~RegexBase64(Head(s2c).data.str))

\* C16: a step in which the listener takes a frame that is not JSON, or a
\* CHALLENGE whose data cannot be decoded, ends with the promise rejected and
\* the transport closing or closed.
C16_MalformedFails ==
  [][ (ListenerTakes /\ MalformedFrame) =>
        (promise' = "rejected" /\ wsReady' \in { "CLOSING", "CLOSED" }) ]_vars

(***************************************************************************)
(* Several connections: what each connection's record shows.               *)
(***************************************************************************)
\* the first read on connection c delivered a CLIENT_ID envelope with a string
ConnGotID(c) ==
  /\ Len(conns[c].reads) >= 1
  /\ ~conns[c].reads[1].err
  /\ conns[c].reads[1].hasType
  /\ conns[c].reads[1].type = "CLIENT_ID"
  /\ conns[c].reads[1].data.kind = "string"

ConnID(c) == conns[c].reads[1].data.str

\* connection c passed identity validation
ConnPassed(c) == ConnGotID(c) /\ WellFormedID(ConnID(c))

\* the writes on connection c that are CHALLENGE messages
ConnChallenges(c) ==
  { i \in DOMAIN conns[c].writes : conns[c].writes[i].type = "CHALLENGE" }

\* the bytes of the CHALLENGE that is the first write on connection c
ConnIssued(c) == StdDecodeString(conns[c].writes[1].data.str).bytes

\* the signature bytes of the CHALLENGE_RESPONSE read on connection c
ConnSig(c) == StdDecodeString(conns[c].reads[2].data.sig)

\* the second read on connection c delivered a CHALLENGE_RESPONSE with hash
\* "SHA-256" and 64 bytes of signature
ConnGotResponse(c) ==
  /\ Len(conns[c].reads) >= 2
  /\ ~conns[c].reads[2].err
  /\ conns[c].reads[2].type = "CHALLENGE_RESPONSE"
  /\ conns[c].reads[2].data.kind = "object"
  /\ conns[c].reads[2].data.sigKind = "string"
  /\ conns[c].reads[2].data.hashKind = "string"
  /\ conns[c].reads[2].data.hash = "SHA-256"
  /\ ~ConnSig(c).err
  /\ Len(ConnSig(c).bytes) = SigLen

\* connection c saw a valid identifier, issued a challenge, and got a
\* signature of the identifier's key pair over the digest of that challenge
ConnSound(c) ==
  /\ ConnPassed(c)
  /\ ConnChallenges(c) = { 1 }
  /\ ConnGotResponse(c)
  /\ ValidSignature(IDBody(ConnID(c)).bytes, ConnIssued(c), ConnSig(c).bytes)

ConnAuthenticated(c) == conns[c].pc = "RETURNED" /\ conns[c].ret.authenticated

\* C17: a handshake calls the random source exactly once if it passes
\* identity validation and never otherwise; when the call succeeds the
\* handshake writes exactly one CHALLENGE, as its first message, carrying
\* exactly the 128 bytes drawn; it accepts only a signature over the digest
\* of those bytes; and no two handshakes issue the same challenge, also when
\* they are made with the same key pair.
C17_ChallengeFreshness ==
  /\ \A c \in Conns :
       /\ ConnPassed(c) => Len(conns[c].draws) = 1
       /\ (Len(conns[c].reads) >= 1 /\ ~ConnPassed(c)) =>
            (conns[c].draws = <<>> /\ ConnChallenges(c) = {})
       /\ (ConnPassed(c) /\ ~conns[c].draws[1].err) =>
            /\ ConnChallenges(c) = { 1 }
            /\ Len(ConnIssued(c)) = challengeByteLength
            /\ ConnIssued(c) = RandomBytes(conns[c].draws[1].c)
       /\ (ConnPassed(c) /\ conns[c].draws[1].err) => ConnChallenges(c) = {}
       /\ ConnAuthenticated(c) => ConnSound(c)
  /\ \A c, d \in Conns :
       (c # d /\ ConnChallenges(c) # {} /\ ConnChallenges(d) # {}) =>
         ConnIssued(c) # ConnIssued(d)

\* C17 as the specification words it: every handshake that passed identity
\* validation has generated and sent one challenge of 128 bytes.  It fails
\* when rand.Read fails (lines 110-115, 173-176): Handshake returns the
\* error and has written nothing.
C17_AsStated ==
  \A c \in Conns :
    ConnPassed(c) =>
      /\ ConnChallenges(c) = { 1 }
      /\ Len(ConnIssued(c)) = challengeByteLength

\* two handshakes with the same key pair, both accepted
C17_Witness ==
  /\ ConnAuthenticated(1)
  /\ ConnAuthenticated(2)
  /\ ConnID(1) = ValidID(1)
  /\ ConnID(2) = ValidID(1)
  /\ ConnIssued(1) # ConnIssued(2)

\* the last message written on connection c
ConnLastWrite(c) == conns[c].writes[Len(conns[c].writes)]

\* C18: with the steps of the handshakes interleaved in any order, each
\* handshake that has returned accepted exactly if its own connection saw a
\* valid identifier, its own challenge and a signature over the digest of
\* its own challenge, and wrote SIGNATURE_MATCHES exactly then; a signature
\* over the challenge of another connection is answered with
\* SIGNATURE_MISMATCH and rejected.
C18_Independence ==
  /\ \A c \in Conns :
       conns[c].pc = "RETURNED" =>
         /\ conns[c].ret.authenticated <=> ConnSound(c)
         /\ ConnSound(c) <=>
              (conns[c].writes # <<>> /\ ConnLastWrite(c).type = "SIGNATURE_MATCHES")
  /\ \A c, d \in Conns :
       (/\ c # d
        /\ ConnChallenges(c) # {}
        /\ ConnChallenges(d) # {}
        /\ ConnGotResponse(d)
        /\ \E k \in Keys : ConnSig(d).bytes = sign(ConnIssued(c), k)) =>
         /\ conns[d].pc = "RETURNED"
         /\ ~conns[d].ret.authenticated
         /\ ConnLastWrite(d).type = "SIGNATURE_MISMATCH"

\* connection 1 accepted; connection 2, same key pair, got the signature that
\* is valid for connection 1's challenge and rejected it
C18_Witness ==
  /\ ConnAuthenticated(1)
  /\ ConnGotID(2)
  /\ ConnID(2) = ConnID(1)
  /\ ConnGotResponse(2)
  /\ ConnSig(2).bytes = ConnSig(1).bytes
  /\ conns[2].pc = "RETURNED"
  /\ ConnLastWrite(2).type = "SIGNATURE_MISMATCH"

\* the identifier has been encoded and decoded again
Decoded == codec.pc = "decoded"

\* the decoded key has the curve and the coordinates that were encoded
SamePoint ==
  /\ ~codec.out.err
  /\ ~codec.out.key.nil
  /\ ParsedCurve = codec.curve
  /\ codec.out.key.X = SetBytes(codec.x)
  /\ codec.out.key.Y = SetBytes(codec.y)

\* C19 as the specification words it: for every curve tag, decoding the
\* encoded identifier yields the curve and the point.  It fails for every
\* curve other than P-256.
C19_AsStated == Decoded => SamePoint

\* C19: decoding the identifier that getClientId makes of a point yields the
\* same curve and the same coordinates when the curve is P-256, and an error
\* and no key for any other curve.
C19_RoundTrip ==
  Decoded =>
    IF codec.curve = StrP256 THEN SamePoint
    ELSE codec.out.err /\ codec.out.key = NilKey

\* a P-256 point whose X has leading zero bytes went through the round trip
C19_Witness ==
  /\ Decoded
  /\ codec.curve = StrP256
  /\ codec.x[1] = 0
  /\ codec.y[1] # 0
  /\ SamePoint
  /\ Len(codec.out.key.X) < CoordLen

\* the messages that end a handshake, and those of them that tell a failure
TerminalTypes ==
  { "SIGNATURE_MATCHES", "SIGNATURE_MISMATCH", "UNSUPPORTED_HASH", "CLIENT_ERROR",
    "SERVER_ERROR" }

FailureTypes == TerminalTypes \ { "SIGNATURE_MATCHES" }

\* the positions of the writes whose tag is in T
WritesOf(T) == { i \in DOMAIN srvWrites : srvWrites[i].msg.type \in T }

\* the order of Handshake's positions
PcRank(pc) ==
  CASE pc = "IDLE" -> 0
    [] pc = "AWAIT_CLIENT_ID" -> 1
    [] pc = "AWAIT_CHALLENGE_RESPONSE" -> 2
    [] pc = "RETURNED" -> 3

\* C20: along every execution the server reads at most twice, writes at most
\* one CHALLENGE and at most one terminal message, no CHALLENGE after a
\* terminal message, never SIGNATURE_MATCHES together with a failure message;
\* every step moves it to a later position; and once it has returned it
\* reads and writes nothing more.
C20_ForwardOnly ==
  /\ [](/\ Len(srvReads) <= 2
        /\ Cardinality(WritesOf({ "CHALLENGE" })) <= 1
        /\ Cardinality(WritesOf(TerminalTypes)) <= 1
        /\ \A i \in WritesOf(TerminalTypes), j \in WritesOf({ "CHALLENGE" }) : j < i
        /\ ~(WritesOf({ "SIGNATURE_MATCHES" }) # {} /\ WritesOf(FailureTypes) # {}))
  /\ [][srvVars' # srvVars => PcRank(srvPc') > PcRank(srvPc)]_vars
  /\ [][Returned => UNCHANGED << srvReads, srvWrites, srvEvents, ret >>]_vars

\* a whole attempt: two reads, the CHALLENGE, then one terminal message
C20_Witness ==
  /\ Returned
  /\ Len(srvReads) = 2
  /\ WritesOf({ "CHALLENGE" }) = { 1 }
  /\ WritesOf(FailureTypes) = { 2 }
  /\ Len(srvWrites) = 2

\* Handshake called rand.Read and it failed or delivered too few bytes
EntropyFailed ==
  /\ srvDraws # <<>>
  /\ srvDraws[1].err \/ srvDraws[1].n < challengeByteLength

\* C21: when the random source errors or yields fewer than 128 bytes,
\* Handshake has returned authenticated = false with a non-nil error after
\* its one read, and has called WriteJSON not once: no CHALLENGE, no
\* SERVER_ERROR, no other message.
C21_EntropyFailure ==
  EntropyFailed =>
    /\ Returned
    /\ ~ret.authenticated
    /\ ret.err
    /\ srvWrites = <<>>
    /\ s2c = <<>>
    /\ srvEvents = << "read" >>

\* a well-formed identifier was read and rand.Read delivered 127 bytes
C21_Witness ==
  /\ EntropyFailed
  /\ ~srvDraws[1].err
  /\ GotClientIDString
  /\ WellFormedID(ReceivedID)
  /\ Returned

\* C22: over a transport that delivers once and in order, whenever the
\* promise of connect is resolved the server on the same connection has read
\* a signature that verifies under the identifier's key over the digest of
\* the challenge it issued, has written SIGNATURE_MATCHES and has returned
\* authenticated = true; the client is never authenticated beside a server
\* that returned authenticated = false.
C22_Agreement ==
  /\ promise = "resolved" =>
        /\ SoundConditions
        /\ Wrote("SIGNATURE_MATCHES")
        /\ Returned
        /\ ret.authenticated
  /\ ~(promise = "resolved" /\ Returned /\ ~ret.authenticated)

\* the client resolved with a key pair other than the first
C22_Witness ==
  /\ promise = "resolved"
  /\ cliKey = 2
  /\ ~hasListener
  /\ Returned
  /\ ret.authenticated

\* the CHALLENGE_RESPONSE messages the client passed to ws.send
ResponsesSent == { i \in DOMAIN cliSent : cliSent[i].type = "CHALLENGE_RESPONSE" }

\* C23: whatever the peer sends and however the arrival of messages
\* interleaves with the settling of sign, at most one sign call is in flight,
\* no CHALLENGE is signed once a response has been sent or while a sign call
\* is in flight, and at most one CHALLENGE_RESPONSE is passed to ws.send.
C23_SingleFlight ==
  /\ Len(signing) <= 1
  /\ Cardinality(ResponsesSent) + Len(signing) <= 1

\* a message arrives at the socket
MessageArrives == s2c # <<>> /\ s2c' = Tail(s2c)

\* C24: the promise of connect, once resolved or rejected, keeps its outcome;
\* whenever it is settled the message listener is removed; and a message
\* that arrives after that is seen by no listener: it changes neither the
\* outcome nor the state of the transport, starts no sign call and makes the
\* client send nothing.
C24_VerdictFinal ==
  /\ [](promise # "pending" => ~hasListener)
  /\ [][promise # "pending" => promise' = promise]_vars
  /\ [][(promise # "pending" /\ MessageArrives) =>
          /\ unheard'
          /\ UNCHANGED << promise, hasListener, wsReady, currentState, signing,
                          cliSent, c2s >>]_vars

\* the promise resolved and a message arrived after it; the socket is open
C24_Witness ==
  /\ promise = "resolved"
  /\ unheard
  /\ wsReady = "OPEN"
  /\ ~hasListener

\* C25: for every buffer of 0 to MaxBufLen bytes, decodeBase64 applied to
\* the result of encodeBase64 throws nothing and returns the bytes of the
\* buffer.
C25_Base64RoundTrip ==
  b64.pc = "decoded" => (~b64.out.throws /\ b64.out.bytes = b64.buf)

\* the same for the buffers of at least one byte
Base64RoundTripNonEmpty ==
  (b64.pc = "decoded" /\ b64.buf # <<>>) => (~b64.out.throws /\ b64.out.bytes = b64.buf)

====
